---- MODULE Spec2Model ----
(***************************************************************************)
(* Model of scripts/convert-paddleocr-models.py: the batch conversion of   *)
(* PaddleOCR checkpoints to ONNX (download, convert, optimize, manifest).  *)
(*                                                                         *)
(* Representation of strings.  A Python string that the program splits or  *)
(* rewrites is a sequence of pieces:                                       *)
(*   - a request token "rec_mobile_en" is <<"rec","mobile","en">>, the     *)
(*     pieces being the text between underscores;                          *)
(*   - a file name "PP-OCRv5_mobile_det_optimized.onnx" is the sequence    *)
(*     <<"PP-OCRv5","mobile","det","optimized",".onnx">>: the pieces       *)
(*     between underscores, the extension being a piece of its own;        *)
(*   - a URL is the sequence of its "/"-separated segments, the last one   *)
(*     (the archive file name) being a sequence <<stem, ".tar">>;          *)
(*   - a path is <<directory, file name>>.                                 *)
(* A file's bytes are an abstract value: two files are byte-identical iff  *)
(* their values are equal.                                                 *)
(***************************************************************************)
EXTENDS Integers, Sequences, FiniteSets, TLC

VARIABLES
    models,             \* args.models: the requested tokens, in order
    skip_download,      \* args.skip_download
    skip_optimization,  \* args.skip_optimization
    tooling,            \* whether onnx / onnxruntime can be imported
    pc,                 \* position of main, or "call" in a direct call
    i,                  \* index in args.models of the current model_spec
    loc,                \* main's locals of the current iteration
    temp,               \* files and directories under output_dir/temp
    temp_exists,        \* whether output_dir/temp exists
    out,                \* artifact files in output_dir: path -> bytes
    models_info,        \* main's models_info: model name -> entry
    metadata,           \* what was written to models_metadata.json, in order
    calls,              \* history: external tools and library steps run
    status              \* history: the stage reached by each request position

vars == <<models, skip_download, skip_optimization, tooling, pc, i, loc, temp,
          temp_exists, out, models_info, metadata, calls, status>>

----------------------------------------------------------------------------
(* Bounds *)

MaxModels == 3

MaxCalls == 2

----------------------------------------------------------------------------
(* Constants of the program *)

None == <<>>

MODEL_URLS ==
    [det |-> { << <<"mobile">>,
                  <<"paddleocr.bj.bcebos.com", "PP-OCRv4", "chinese",
                    <<"ch_PP-OCRv4_det_infer", ".tar">> >> >>,
               << <<"server">>,
                  <<"paddleocr.bj.bcebos.com", "PP-OCRv4", "chinese",
                    <<"ch_PP-OCRv4_det_server_infer", ".tar">> >> >> },
     rec |-> { << <<"mobile", "en">>,
                  <<"paddleocr.bj.bcebos.com", "PP-OCRv4", "english",
                    <<"en_PP-OCRv4_rec_infer", ".tar">> >> >>,
               << <<"mobile", "ch">>,
                  <<"paddleocr.bj.bcebos.com", "PP-OCRv4", "chinese",
                    <<"ch_PP-OCRv4_rec_infer", ".tar">> >> >>,
               << <<"server", "en">>,
                  <<"paddleocr.bj.bcebos.com", "PP-OCRv4", "english",
                    <<"en_PP-OCRv4_rec_server_infer", ".tar">> >> >> }]

ONNX_SETTINGS ==
    [opset_version |-> 11,
     enable_onnx_checker |-> TRUE,
     enable_auto_update_opset |-> TRUE,
     deploy_backend |-> "onnxruntime",
     save_external_data |-> FALSE,
     enable_optimize |-> TRUE]

DetShape == <<-1, 3, -1, -1>>

RecShape == <<-1, 3, 48, -1>>

OutputDir == "onnx_models"

TempDir == "onnx_models/temp"

----------------------------------------------------------------------------
(* Helpers: dict.get, str.split, str.replace, a file system as a function *)

\* d.get(k) of a dict given as a set of <<key, value>> pairs
DictGet(d, k) ==
    IF \E e \in d : e[1] = k
    THEN (CHOOSE e \in d : e[1] = k)[2]
    ELSE None

\* Mutant of Split1: s.split('_'), a split at every underscore
SplitEvery(s) == [k \in 1..Len(s) |-> <<s[k]>>]

\* s.split('_', 1): at most one split, at the first underscore
Split1(s) ==
    IF Len(s) <= 1 THEN <<s>> ELSE << <<Head(s)>>, Tail(s) >>

\* name.replace(old, new) where old is one piece and new a sequence of pieces
RECURSIVE Replace(_, _, _)
Replace(name, old, new) ==
    IF name = <<>> THEN <<>>
    ELSE (IF Head(name) = old THEN new ELSE <<Head(name)>>)
         \o Replace(Tail(name), old, new)

\* path.replace(old, new) for a path <<dir, name>> whose dir does not hold old
PathReplace(path, old, new) == <<path[1], Replace(path[2], old, new)>>

Exists(fs, path) == path \in DOMAIN fs

Put(fs, path, bytes) ==
    [p \in DOMAIN fs \cup {path} |-> IF p = path THEN bytes ELSE fs[p]]

EmptyFs == [p \in {} |-> 0]

----------------------------------------------------------------------------
(* The stages.  Each is an operator from its arguments, the state it reads *)
(* and the outcome of the external tools it runs (env) to the state it     *)
(* leaves: the files, the history of calls, and whether it raised.         *)

Call(tool, args, rc) == [tool |-> tool, at |-> i, args |-> args, rc |-> rc]

\* Mutant of download_model: the two os.path.exists checks are dropped, so
\* every invocation downloads and extracts.
download_model_unchecked(url, output_dir, env) ==
    LET filename == url[Len(url)]
        filepath == <<output_dir, filename>>
        temp1 == IF env.wget_rc = 0 THEN Put(temp, filepath, "archive")
                 ELSE Put(temp, filepath, "partial")
        calls1 == Append(calls, Call("wget", <<url, filepath>>, env.wget_rc))
        raised1 == env.wget_rc # 0
        extract_dir == PathReplace(filepath, ".tar", <<>>)
        temp2 == IF ~raised1 /\ env.tar_rc = 0
                 THEN Put(temp1, extract_dir, "dir") ELSE temp1
        calls2 == IF ~raised1
                  THEN Append(calls1, Call("tar", <<filepath, output_dir>>,
                                           env.tar_rc))
                  ELSE calls1
        raised2 == raised1 \/ env.tar_rc # 0
    IN [temp |-> temp2,
        calls |-> Append(calls2, Call("download_model",
                             <<url, output_dir, extract_dir>>,
                             IF raised2 THEN 1 ELSE 0)),
        raised |-> raised2, ret |-> extract_dir]

\* download_model(url, output_dir).  env.wget_rc, env.tar_rc: exit status of
\* wget and tar.  wget -O opens its output file before it fetches, so a
\* failed download leaves a truncated archive; a failed tar leaves no
\* directory.
download_model(url, output_dir, env) ==
    LET filename == url[Len(url)]
        filepath == <<output_dir, filename>>
        download == ~Exists(temp, filepath)
        temp1 == IF ~download THEN temp
                 ELSE IF env.wget_rc = 0 THEN Put(temp, filepath, "archive")
                 ELSE Put(temp, filepath, "partial")
        calls1 == IF download
                  THEN Append(calls, Call("wget", <<url, filepath>>, env.wget_rc))
                  ELSE calls
        raised1 == download /\ env.wget_rc # 0
        extract_dir == PathReplace(filepath, ".tar", <<>>)
        extract == ~raised1 /\ ~Exists(temp1, extract_dir)
        \* tar cannot unpack a truncated archive
        tar_rc == IF extract /\ temp1[filepath] = "partial" /\ env.tar_rc = 0
                  THEN 2 ELSE env.tar_rc
        temp2 == IF ~extract THEN temp1
                 ELSE IF tar_rc = 0 THEN Put(temp1, extract_dir, "dir")
                 ELSE temp1
        calls2 == IF extract
                  THEN Append(calls1, Call("tar", <<filepath, output_dir>>, tar_rc))
                  ELSE calls1
        raised2 == raised1 \/ (extract /\ tar_rc # 0)
        \* history: the invocation itself, with what it returned
        calls3 == Append(calls2, Call("download_model",
                             <<url, output_dir, extract_dir>>,
                             IF raised2 THEN 1 ELSE 0))
    IN [temp |-> temp2, calls |-> calls3, raised |-> raised2,
        ret |-> extract_dir]

\* Mutant of InputShape: the two shapes are exchanged
InputShapeSwapped(model_type) ==
    IF model_type = <<"det">> THEN RecShape ELSE DetShape

\* The --input_shape_dict chosen by convert_to_onnx
InputShape(model_type) ==
    IF model_type = <<"det">> THEN DetShape ELSE RecShape

\* Mutant of convert_to_onnx: the return code of paddle2onnx is not checked
convert_to_onnx_unchecked(paddle_model_dir, onnx_output_path, model_type, rc) ==
    LET cmd == [model_dir |-> paddle_model_dir,
                save_file |-> onnx_output_path,
                opset_version |-> ONNX_SETTINGS.opset_version,
                deploy_backend |-> ONNX_SETTINGS.deploy_backend,
                enable_onnx_checker |-> ONNX_SETTINGS.enable_onnx_checker,
                enable_auto_update_opset |->
                    ONNX_SETTINGS.enable_auto_update_opset,
                model_type |-> model_type,
                input_shape_dict |-> InputShape(model_type)]
        bytes == [kind |-> "onnx", model_dir |-> paddle_model_dir,
                  shape |-> cmd.input_shape_dict]
    IN [out |-> IF rc = 0 THEN Put(out, onnx_output_path, bytes) ELSE out,
        calls |-> Append(calls, Call("paddle2onnx", cmd, rc)),
        raised |-> FALSE,
        ret |-> onnx_output_path]

\* convert_to_onnx(paddle_model_dir, onnx_output_path, model_type).
\* rc: exit status of paddle2onnx, which writes --save_file when it succeeds.
convert_to_onnx(paddle_model_dir, onnx_output_path, model_type, rc) ==
    LET cmd == [model_dir |-> paddle_model_dir,
                save_file |-> onnx_output_path,
                opset_version |-> ONNX_SETTINGS.opset_version,
                deploy_backend |-> ONNX_SETTINGS.deploy_backend,
                enable_onnx_checker |-> ONNX_SETTINGS.enable_onnx_checker,
                enable_auto_update_opset |->
                    ONNX_SETTINGS.enable_auto_update_opset,
                model_type |-> model_type,
                input_shape_dict |-> InputShape(model_type)]
        bytes == [kind |-> "onnx", model_dir |-> paddle_model_dir,
                  shape |-> cmd.input_shape_dict]
    IN [out |-> IF rc = 0 THEN Put(out, onnx_output_path, bytes) ELSE out,
        calls |-> Append(calls, Call("paddle2onnx", cmd, rc)),
        raised |-> rc # 0,
        ret |-> onnx_output_path]

\* shutil.copy2(src, dst)
Copy2(fs, src, dst) == Put(fs, dst, fs[src])

\* The quantized file's path as optimize_onnx_for_web computes it
QuantizedPath(optimized_path) ==
    PathReplace(optimized_path, ".onnx", <<"quantized", ".onnx">>)

\* optimize_onnx_for_web(onnx_path, optimized_path).  import_ok: whether the
\* imports of lines 100-102 succeed; fail: the step of the primary path that
\* raises ("none", "load", "optimize", "quantize").
optimize_onnx_for_web(onnx_path, optimized_path, import_ok, fail) ==
    LET quantized_path == QuantizedPath(optimized_path)
        optimized == [kind |-> "optimized", of |-> out[onnx_path]]
        quantized == [kind |-> "quantized", of |-> optimized]
        out1 == Put(out, optimized_path, optimized)
        out2 == Put(out1, quantized_path, quantized)
    IN  IF ~Exists(out, onnx_path)
        \* onnx.load, or shutil.copy2 in the fallback: FileNotFoundError
        THEN [out |-> out,
              calls |-> Append(calls, Call("optimizer",
                            <<onnx_path, optimized_path>>, "load")),
              raised |-> TRUE]
        ELSE IF ~import_ok
        THEN [out |-> Copy2(out, onnx_path, optimized_path),
              calls |-> Append(calls, Call("optimizer",
                            <<onnx_path, optimized_path>>, "ImportError")),
              raised |-> FALSE]
        ELSE [out |-> IF fail \in {"load", "optimize"} THEN out
                      ELSE IF fail = "quantize" THEN out1
                      ELSE out2,
              calls |-> Append(calls, Call("optimizer",
                            <<onnx_path, optimized_path>>, fail)),
              raised |-> fail # "none"]

\* create_model_metadata(models_info, output_path): the document written
create_model_metadata(info) ==
    [version |-> "PP-OCRv5",
     models |-> info,
     conversion_settings |-> ONNX_SETTINGS,
     optimization_notes |->
        [detection |-> [input_shape |-> DetShape,
                        notes |-> "Dynamic batch and spatial dimensions"],
         recognition |-> [input_shape |-> RecShape,
                          notes |-> "Fixed height of 48, dynamic width"]]]

----------------------------------------------------------------------------
(* main *)

\* The tokens a request is drawn from: catalog entries, an unknown variant,
\* an unknown task type, and a token with no underscore.
Tokens ==
    { <<"det", "mobile">>, <<"rec", "server", "en">>,
      <<"det", "bogus">>, <<"cls", "mobile">>, <<"bogus">> }

RECURSIVE SeqsUpTo(_, _)
SeqsUpTo(S, n) ==
    IF n = 0 THEN {<<>>}
    ELSE LET shorter == SeqsUpTo(S, n - 1)
         IN shorter \cup {Append(q, x) : q \in {r \in shorter : Len(r) = n - 1},
                                          x \in S}

\* The request lists: nargs="+" takes at least one token
Requests == {q \in SeqsUpTo(Tokens, MaxModels) : Len(q) >= 1}

NoLoc == [model_type |-> None, variant |-> None, url |-> None,
          model_name |-> None, paddle_model_dir |-> None,
          onnx_path |-> None, optimized_path |-> None]

\* Mutant of Resolve: a variant missing from the catalog falls back to the
\* mobile detection URL instead of being skipped.
ResolveDefaultUrl(model_spec) ==
    LET parts == Split1(model_spec)
        default == DictGet(MODEL_URLS.det, <<"mobile">>)
    IN  IF Len(parts) # 2
        THEN [what |-> "ValueError", model_type |-> None, variant |-> None,
              url |-> None, model_name |-> None]
        ELSE LET model_type == parts[1]
                 variant == parts[2]
                 found == IF model_type = <<"det">>
                          THEN DictGet(MODEL_URLS.det, variant)
                          ELSE IF model_type = <<"rec">>
                          THEN DictGet(MODEL_URLS.rec, variant)
                          ELSE None
                 model_name ==
                     IF model_type = <<"det">>
                     THEN <<"PP-OCRv5">> \o variant \o <<"det">>
                     ELSE IF model_type = <<"rec">>
                     THEN <<"PP-OCRv5">> \o variant \o <<"rec">>
                     ELSE None
             IN [what |-> IF model_type \notin {<<"det">>, <<"rec">>}
                          THEN "unknown type"
                          ELSE "ok",
                 model_type |-> model_type, variant |-> variant,
                 url |-> IF found = None THEN default ELSE found,
                 model_name |-> model_name]

\* Lines 190-204: the token parsed and looked up in MODEL_URLS.
\* what: "ok", or why the token is skipped.
Resolve(model_spec) ==
    LET parts == Split1(model_spec)
    IN  IF Len(parts) # 2
        THEN [what |-> "ValueError", model_type |-> None, variant |-> None,
              url |-> None, model_name |-> None]
        ELSE LET model_type == parts[1]
                 variant == parts[2]
                 url == IF model_type = <<"det">>
                        THEN DictGet(MODEL_URLS.det, variant)
                        ELSE IF model_type = <<"rec">>
                        THEN DictGet(MODEL_URLS.rec, variant)
                        ELSE None
                 model_name ==
                     IF model_type = <<"det">>
                     THEN <<"PP-OCRv5">> \o variant \o <<"det">>
                     ELSE IF model_type = <<"rec">>
                     THEN <<"PP-OCRv5">> \o variant \o <<"rec">>
                     ELSE None
             IN [what |-> IF model_type \notin {<<"det">>, <<"rec">>}
                          THEN "unknown type"
                          ELSE IF url = None THEN "unknown variant"
                          ELSE "ok",
                 model_type |-> model_type, variant |-> variant,
                 url |-> url, model_name |-> model_name]

\* Mutant of OnnxPath: every model is converted into the same file
OnnxPathShared(model_name) == <<OutputDir, <<"model", ".onnx">> >>

\* f"{model_name}.onnx" and f"{model_name}_optimized.onnx" in output_dir
OnnxPath(model_name) == <<OutputDir, model_name \o <<".onnx">> >>

OptimizedPath(model_name) ==
    <<OutputDir, model_name \o <<"optimized", ".onnx">> >>

\* Mutant of Entry: only the raw converted graph is recorded
EntryRawOnly(l) ==
    [type |-> l.model_type, variant |-> l.variant, onnx |-> l.onnx_path[2]]

\* The entry main records for a model (lines 220-232)
Entry(l) ==
    IF ~skip_optimization
    THEN [type |-> l.model_type, variant |-> l.variant,
          original_onnx |-> l.onnx_path[2],
          optimized_onnx |-> l.optimized_path[2],
          quantized_onnx |->
              Replace(l.optimized_path[2], ".onnx", <<"quantized", ".onnx">>)]
    ELSE [type |-> l.model_type, variant |-> l.variant,
          onnx |-> l.onnx_path[2]]

\* Mutant of AfterConvert: the optimizer is entered whatever the flag
AfterConvertAlwaysOptimize == "optimize"

\* The stage main enters after a stage returned, and after the loop's body
AfterConvert == IF ~skip_optimization THEN "optimize" ELSE "record"

\* Mutant of AfterIteration: the loop is left after its first iteration
AfterIterationBreak == "metadata"

AfterIteration == IF i + 1 > Len(models) THEN "metadata" ELSE "for"

\* The state of main at line 186: the arguments parsed, output_dir and
\* output_dir/temp created (here: in a fresh output directory), models_info
\* empty.
Init ==
    /\ models \in Requests
    /\ skip_download \in BOOLEAN
    /\ skip_optimization \in BOOLEAN
    /\ tooling \in BOOLEAN
    /\ pc = "for"
    /\ i = 1
    /\ loc = NoLoc
    /\ temp = EmptyFs
    /\ temp_exists = TRUE
    /\ out = EmptyFs
    /\ models_info = EmptyFs
    /\ metadata = <<>>
    /\ calls = <<>>
    /\ status = [k \in 1..Len(models) |-> "Pending"]

\* Mutant of Continue: a failed model ends the loop
ContinueAbortsOnFailure(result) ==
    /\ status' = [status EXCEPT ![i] = result]
    /\ i' = i + 1
    /\ pc' = IF result = "Failed" THEN "metadata" ELSE AfterIteration
    /\ loc' = NoLoc

\* "continue", and the except clause of lines 234-236: the next model_spec
Continue(result) ==
    /\ status' = [status EXCEPT ![i] = result]
    /\ i' = i + 1
    /\ pc' = AfterIteration
    /\ loc' = NoLoc

\* Lines 188-206: the loop takes the next token and resolves it
ForModel ==
    /\ pc = "for"
    /\ LET r == Resolve(models[i])
       IN  IF r.what = "ok"
           THEN /\ loc' = [NoLoc EXCEPT !.model_type = r.model_type,
                                        !.variant = r.variant,
                                        !.url = r.url,
                                        !.model_name = r.model_name]
                /\ pc' = "download"
                /\ status' = [status EXCEPT ![i] = "Fetching"]
                /\ UNCHANGED i
           ELSE Continue("Failed")
    /\ UNCHANGED <<models, skip_download, skip_optimization, tooling, temp,
                   temp_exists, out, models_info, metadata, calls>>

\* Mutant of Download: with --skip-download the fetcher is not called and the
\* extracted directory is taken to be in place
DownloadUnlessSkipped ==
    /\ pc = "download"
    /\ \E wget_rc \in {0, 1}, tar_rc \in {0, 2} :
         LET r == download_model(loc.url, TempDir,
                     [wget_rc |-> wget_rc, tar_rc |-> tar_rc])
         IN  IF skip_download
             THEN /\ loc' = [loc EXCEPT !.paddle_model_dir = r.ret]
                  /\ pc' = "convert"
                  /\ status' = [status EXCEPT ![i] = "Converting"]
                  /\ UNCHANGED <<i, temp, calls>>
             ELSE /\ temp' = r.temp
                  /\ calls' = r.calls
                  /\ IF r.raised
                     THEN Continue("Failed")
                     ELSE /\ loc' = [loc EXCEPT !.paddle_model_dir = r.ret]
                          /\ pc' = "convert"
                          /\ status' = [status EXCEPT ![i] = "Converting"]
                          /\ UNCHANGED i
    /\ UNCHANGED <<models, skip_download, skip_optimization, tooling,
                   temp_exists, out, models_info, metadata>>

\* Line 209: download_model(url, str(temp_dir))
Download ==
    /\ pc = "download"
    /\ \E wget_rc \in {0, 1}, tar_rc \in {0, 2} :
         LET r == download_model(loc.url, TempDir,
                     [wget_rc |-> wget_rc, tar_rc |-> tar_rc])
         IN  /\ temp' = r.temp
             /\ calls' = r.calls
             /\ IF r.raised
                THEN Continue("Failed")
                ELSE /\ loc' = [loc EXCEPT !.paddle_model_dir = r.ret]
                     /\ pc' = "convert"
                     /\ status' = [status EXCEPT ![i] = "Converting"]
                     /\ UNCHANGED i
    /\ UNCHANGED <<models, skip_download, skip_optimization, tooling,
                   temp_exists, out, models_info, metadata>>

\* Mutant of Convert: the next stage is entered although the converter raised
ConvertIgnoresFailure ==
    /\ pc = "convert"
    /\ \E rc \in {0, 1} :
         LET onnx_path == OnnxPath(loc.model_name)
             r == convert_to_onnx(loc.paddle_model_dir, onnx_path,
                                  loc.model_type, rc)
         IN  /\ out' = r.out
             /\ calls' = r.calls
             /\ loc' = [loc EXCEPT !.onnx_path = onnx_path]
             /\ pc' = AfterConvert
             /\ status' = [status EXCEPT ![i] =
                   IF ~skip_optimization THEN "Optimizing"
                   ELSE "Converting"]
             /\ UNCHANGED i
    /\ UNCHANGED <<models, skip_download, skip_optimization, tooling, temp,
                   temp_exists, models_info, metadata>>

\* Lines 212-213: convert_to_onnx(paddle_model_dir, str(onnx_path), model_type)
Convert ==
    /\ pc = "convert"
    /\ \E rc \in {0, 1} :
         LET onnx_path == OnnxPath(loc.model_name)
             r == convert_to_onnx(loc.paddle_model_dir, onnx_path,
                                  loc.model_type, rc)
         IN  /\ out' = r.out
             /\ calls' = r.calls
             /\ IF r.raised
                THEN Continue("Failed")
                ELSE /\ loc' = [loc EXCEPT !.onnx_path = onnx_path]
                     /\ pc' = AfterConvert
                     /\ status' = [status EXCEPT ![i] =
                           IF ~skip_optimization THEN "Optimizing"
                           ELSE "Converting"]
                     /\ UNCHANGED i
    /\ UNCHANGED <<models, skip_download, skip_optimization, tooling, temp,
                   temp_exists, models_info, metadata>>

\* Mutant of Optimize: the model is recorded although the optimizer raised
OptimizeSwallowsFailure ==
    /\ pc = "optimize"
    /\ \E fail \in {"none", "load", "optimize", "quantize"} :
         LET optimized_path == OptimizedPath(loc.model_name)
             r == optimize_onnx_for_web(loc.onnx_path, optimized_path,
                                        tooling, fail)
         IN  /\ out' = r.out
             /\ calls' = r.calls
             /\ loc' = [loc EXCEPT !.optimized_path = optimized_path]
             /\ pc' = "record"
             /\ UNCHANGED <<i, status>>
    /\ UNCHANGED <<models, skip_download, skip_optimization, tooling, temp,
                   temp_exists, models_info, metadata>>

\* Lines 216-218: optimize_onnx_for_web(str(onnx_path), str(optimized_path))
Optimize ==
    /\ pc = "optimize"
    /\ \E fail \in {"none", "load", "optimize", "quantize"} :
         LET optimized_path == OptimizedPath(loc.model_name)
             r == optimize_onnx_for_web(loc.onnx_path, optimized_path,
                                        tooling, fail)
         IN  /\ out' = r.out
             /\ calls' = r.calls
             /\ IF r.raised
                THEN Continue("Failed")
                ELSE /\ loc' = [loc EXCEPT !.optimized_path = optimized_path]
                     /\ pc' = "record"
                     /\ UNCHANGED <<i, status>>
    /\ UNCHANGED <<models, skip_download, skip_optimization, tooling, temp,
                   temp_exists, models_info, metadata>>

\* Mutant of Record: an entry already in the manifest is kept beside the
\* new one
RecordKeepsEarlier ==
    /\ pc = "record"
    /\ models_info' =
          Put(models_info,
              IF loc.model_name \in DOMAIN models_info
              THEN loc.model_name \o <<"again">> ELSE loc.model_name,
              Entry(loc))
    /\ Continue("Recorded")
    /\ UNCHANGED <<models, skip_download, skip_optimization, tooling, temp,
                   temp_exists, out, metadata, calls>>

\* Mutant of Record: the manifest keeps one entry per request position
RecordPerPosition ==
    /\ pc = "record"
    /\ models_info' = Put(models_info, loc.model_name \o <<ToString(i)>>,
                          Entry(loc))
    /\ Continue("Recorded")
    /\ UNCHANGED <<models, skip_download, skip_optimization, tooling, temp,
                   temp_exists, out, metadata, calls>>

\* Lines 220-232: models_info[model_name] = {...}
Record ==
    /\ pc = "record"
    /\ models_info' = Put(models_info, loc.model_name, Entry(loc))
    /\ Continue("Recorded")
    /\ UNCHANGED <<models, skip_download, skip_optimization, tooling, temp,
                   temp_exists, out, metadata, calls>>

\* Line 239: create_model_metadata(models_info, output_dir/models_metadata.json)
WriteMetadata ==
    /\ pc = "metadata"
    /\ metadata' = Append(metadata, create_model_metadata(models_info))
    /\ pc' = "cleanup"
    /\ UNCHANGED <<models, skip_download, skip_optimization, tooling, i, loc,
                   temp, temp_exists, out, models_info, calls, status>>

\* Mutant of Cleanup: the run ends without removing the scratch directory
CleanupKeepsTemp ==
    /\ pc = "cleanup"
    /\ pc' = "done"
    /\ UNCHANGED <<models, skip_download, skip_optimization, tooling, i, loc,
                   temp, temp_exists, out, models_info, metadata, calls,
                   status>>

\* Line 246: rm -rf temp_dir
Cleanup ==
    /\ pc = "cleanup"
    /\ temp' = EmptyFs
    /\ temp_exists' = FALSE
    /\ calls' = Append(calls, Call("rm", <<TempDir>>, 0))
    /\ pc' = "done"
    /\ UNCHANGED <<models, skip_download, skip_optimization, tooling, i, loc,
                   out, models_info, metadata, status>>

Next ==
    \/ ForModel
    \/ Download
    \/ Convert
    \/ Optimize
    \/ Record
    \/ WriteMetadata
    \/ Cleanup

Spec == Init /\ [][Next]_vars

\* main is sequential code whose every step returns: a step that can be taken
\* is taken.
FairSpec == Spec /\ WF_vars(Next)

----------------------------------------------------------------------------
(* convert_to_onnx called directly, with any task type, as a caller of the *)
(* function other than main may call it.                                   *)

TaskTypes == { <<"det">>, <<"rec">>, <<"cls">>, <<"">> }

ModelDirs == { <<TempDir, <<"ch_PP-OCRv4_det_infer">> >>,
               <<TempDir, <<"en_PP-OCRv4_rec_infer">> >> }

InitConvert ==
    /\ models = <<>>
    /\ skip_download = FALSE
    /\ skip_optimization = FALSE
    /\ tooling = TRUE
    /\ pc = "call"
    /\ i = 0
    /\ loc = NoLoc
    /\ temp = EmptyFs
    /\ temp_exists = TRUE
    /\ out = EmptyFs
    /\ models_info = EmptyFs
    /\ metadata = <<>>
    /\ calls = <<>>
    /\ status = <<>>

CallConvert ==
    /\ pc = "call"
    /\ Len(calls) < MaxCalls
    /\ \E dir \in ModelDirs, model_type \in TaskTypes, rc \in {0, 1} :
         LET r == convert_to_onnx(dir, OnnxPath(<<"model">>), model_type, rc)
         IN  /\ out' = r.out
             /\ calls' = r.calls
    /\ UNCHANGED <<models, skip_download, skip_optimization, tooling, pc, i,
                   loc, temp, temp_exists, models_info, metadata, status>>

NextConvert == CallConvert

SpecConvert == InitConvert /\ [][NextConvert]_vars

----------------------------------------------------------------------------
(* Vocabulary of the properties *)

Positions == 1..Len(models)

\* The tokens that name an entry of the catalog, as the catalog is documented
CatalogTokens ==
    { <<"det", "mobile">>, <<"det", "server">>, <<"rec", "mobile", "en">>,
      <<"rec", "mobile", "ch">>, <<"rec", "server", "en">> }

Settled(k) == status[k] \in {"Recorded", "Failed"}

AllSettled == \A k \in Positions : Settled(k)

\* The calls made while the token at position k was processed
CallsAt(k) == {n \in 1..Len(calls) : calls[n].at = k}

\* A stage raised for the token at position k
FetchRaised(k) ==
    \E n \in 1..Len(calls) :
        calls[n].at = k /\ calls[n].tool \in {"wget", "tar"} /\ calls[n].rc # 0

ConvertRaised(k) ==
    \E n \in 1..Len(calls) :
        calls[n].at = k /\ calls[n].tool = "paddle2onnx" /\ calls[n].rc # 0

OptimizeRaised(k) ==
    \E n \in 1..Len(calls) :
        calls[n].at = k /\ calls[n].tool = "optimizer"
        /\ calls[n].rc \in {"load", "optimize", "quantize"}

\* The call c ended in an error
Failing(c) ==
    IF c.tool = "optimizer" THEN c.rc \in {"load", "optimize", "quantize"}
    ELSE c.rc # 0

StageRaised(k) ==
    \E n \in 1..Len(calls) : calls[n].at = k /\ Failing(calls[n])

\* The optimizer took the ImportError fallback for the token at position k
FellBack(k) ==
    \E n \in 1..Len(calls) :
        calls[n].at = k /\ calls[n].tool = "optimizer"
        /\ calls[n].rc = "ImportError"

\* The model name and the artifact paths of a catalog token, as documented:
\* PP-OCRv5_<variant>_<type>, with .onnx, _optimized.onnx and
\* _optimized_quantized.onnx in the output directory
NameOf(token) == <<"PP-OCRv5">> \o Tail(token) \o <<Head(token)>>

RawFile(token) == <<OutputDir, NameOf(token) \o <<".onnx">> >>

OptimizedFile(token) == <<OutputDir, NameOf(token) \o <<"optimized", ".onnx">> >>

QuantizedFile(token) ==
    <<OutputDir, NameOf(token) \o <<"optimized", "quantized", ".onnx">> >>

\* The file names an entry of the manifest records
EntryFiles(e) ==
    IF "onnx" \in DOMAIN e THEN {e.onnx}
    ELSE {e.original_onnx, e.optimized_onnx, e.quantized_onnx}

\* The manifest as written to models_metadata.json
Written == Len(metadata) >= 1

Manifest == metadata[Len(metadata)].models

----------------------------------------------------------------------------
(* C1 *)

\* C1: when the optimizer took the ImportError fallback for a model, the
\* optimized file is byte-identical to the raw converted graph, no quantized
\* file was produced, and the manifest entry recorded for that model holds
\* no quantized file name.
C1_FallbackRecordsNoQuantized ==
    \A k \in Positions :
        (FellBack(k) /\ status[k] = "Recorded") =>
            /\ out[OptimizedFile(models[k])] = out[RawFile(models[k])]
            /\ ~Exists(out, QuantizedFile(models[k]))
            /\ "quantized_onnx" \notin DOMAIN models_info[NameOf(models[k])]

\* The part of C1 about the files alone, which the code satisfies
C1_FallbackFiles ==
    \A k \in Positions :
        (FellBack(k) /\ status[k] = "Recorded") =>
            /\ out[OptimizedFile(models[k])] = out[RawFile(models[k])]
            /\ ~Exists(out, QuantizedFile(models[k]))

----------------------------------------------------------------------------
(* C2 *)

\* C2: every catalog token whose stages all succeeded has a manifest entry,
\* and once the metadata file is written every file name recorded in every
\* manifest entry names a file that exists in the output directory.
C2_RecordedFilesExist ==
    /\ \A k \in Positions :
          status[k] = "Recorded" => NameOf(models[k]) \in DOMAIN models_info
    /\ Written =>
          \A n \in DOMAIN Manifest :
              \A f \in EntryFiles(Manifest[n]) : Exists(out, <<OutputDir, f>>)

----------------------------------------------------------------------------
(* C3 *)

\* Exactly the token at position k failed, in its conversion step, and the
\* run has written its metadata.
OnlyConvertFailedAt(k) ==
    /\ pc \in {"cleanup", "done"}
    /\ ConvertRaised(k)
    /\ status[k] = "Failed"
    /\ \A j \in Positions \ {k} : status[j] = "Recorded"

\* C3 as stated: with exactly one token of N failing in its conversion, the
\* written manifest has exactly N-1 entries and the metadata file is written.
C3_ExactlyNMinusOne ==
    \A k \in Positions :
        OnlyConvertFailedAt(k) =>
            /\ Written
            /\ Cardinality(DOMAIN Manifest) = Len(models) - 1

\* C3 amended: with exactly one token of N failing in its conversion, the
\* written manifest has one entry per distinct token among the other N-1
\* tokens (N-1 entries when they are pairwise distinct), each under its own
\* model name, and the metadata file is written.
C3_OnePerDistinctToken ==
    \A k \in Positions :
        OnlyConvertFailedAt(k) =>
            /\ Written
            /\ DOMAIN Manifest =
                  {NameOf(models[j]) : j \in Positions \ {k}}
            /\ Cardinality(DOMAIN Manifest) =
                  Cardinality({models[j] : j \in Positions \ {k}})
            /\ (Cardinality({models[j] : j \in Positions \ {k}})
                    = Len(models) - 1
                => Cardinality(DOMAIN Manifest) = Len(models) - 1)

C3_Witness ==
    \E k \in Positions :
        /\ OnlyConvertFailedAt(k)
        /\ pc = "done"
        /\ Len(models) = 3
        /\ Cardinality(DOMAIN Manifest) = 1

----------------------------------------------------------------------------
(* C4 *)

\* C4: a requested token that names no catalog entry (unknown task type,
\* unknown variant, no underscore) is rejected before any I/O (no call of
\* the fetcher, the converter or the optimizer is made for it), it ends
\* Failed with the loop moving on to the next token, and the manifest never
\* holds an entry for it.
C4_UnknownTokenRejected ==
    \A k \in Positions :
        models[k] \notin CatalogTokens =>
            /\ CallsAt(k) = {}
            /\ status[k] \in {"Pending", "Failed"}
            /\ (i > k <=> status[k] = "Failed")
            /\ (i = k => pc = "for" /\ ENABLED ForModel)
            /\ \A n \in DOMAIN models_info :
                  models_info[n].type \o models_info[n].variant # models[k]
            /\ (Len(models[k]) > 1 =>
                  NameOf(models[k]) \notin DOMAIN models_info)

C4_Witness ==
    /\ pc = "done"
    /\ models = << <<"bogus">>, <<"det", "bogus">>, <<"det", "mobile">> >>
    /\ status = <<"Failed", "Failed", "Recorded">>

----------------------------------------------------------------------------
(* C5 *)

\* C5: the metadata writer runs exactly once in every run: never twice, only
\* after every requested token is Recorded or Failed, always before the run
\* ends, and the manifest is the same ever after.
C5_MetadataWrittenOnce ==
    /\ Len(metadata) <= 1
    /\ Written => AllSettled /\ Manifest = models_info
    /\ pc \in {"cleanup", "done"} => Written
    /\ pc \in {"for", "download", "convert", "optimize", "record", "metadata"}
          => ~Written

C5_Witness ==
    /\ pc = "done"
    /\ Len(metadata) = 1
    /\ \E j, k, l \in Positions :
          FetchRaised(j) /\ ConvertRaised(k) /\ OptimizeRaised(l)
    /\ AllSettled

----------------------------------------------------------------------------
(* C6 *)

\* C6 as stated: a token for which a stage raised has no entry under its
\* model name in the written manifest.
C6_FailedAbsent ==
    Written =>
        \A k \in Positions :
            StageRaised(k) => NameOf(models[k]) \notin DOMAIN Manifest

\* C6 amended: a token for which a stage raised, and which was not recorded
\* at any other position of the request, has no entry under its model name
\* in the manifest; a manifest entry always stems from a position at which
\* every stage succeeded.
C6_FailedEverywhereAbsent ==
    /\ \A k \in Positions :
          (StageRaised(k)
           /\ ~\E j \in Positions : models[j] = models[k]
                                    /\ status[j] = "Recorded"
                                    /\ ~StageRaised(j))
          => /\ NameOf(models[k]) \notin DOMAIN models_info
             /\ (Written => NameOf(models[k]) \notin DOMAIN Manifest)
    /\ \A n \in DOMAIN models_info :
          \E j \in Positions :
              NameOf(models[j]) = n /\ status[j] = "Recorded" /\ ~StageRaised(j)

C6_Witness ==
    /\ pc = "done"
    /\ \E k, j \in Positions :
          /\ StageRaised(k) /\ status[k] = "Failed"
          /\ status[j] = "Recorded"
          /\ NameOf(models[k]) \notin DOMAIN Manifest
          /\ \E l \in Positions \ {k} : models[l] = models[k] /\ StageRaised(l)

----------------------------------------------------------------------------
(* C7 *)

\* A stage that raised for position k was caught: the token is Failed and
\* the loop has moved past it.
CaughtAtBoundary ==
    \A k \in Positions : StageRaised(k) => status[k] = "Failed" /\ i > k

\* One token at a time, in request order: a token is started only when all
\* tokens before it are Recorded or Failed, and the calls made follow the
\* order of the request.
InRequestOrder ==
    /\ \A k \in Positions :
          status[k] # "Pending" => \A j \in 1..(k - 1) : Settled(j)
    /\ \A n, m \in 1..Len(calls) : n < m => calls[n].at <= calls[m].at

\* After the batch, every catalog token was attempted, whatever failed
\* before it.
EveryTokenProcessed ==
    pc = "done" =>
        /\ AllSettled
        /\ \A k \in Positions :
              models[k] \in CatalogTokens =>
                  \E n \in CallsAt(k) : calls[n].tool = "download_model"

\* The number of steps main has left at most
StepsLeft ==
    IF pc = "done" THEN 0
    ELSE IF pc = "cleanup" THEN 1
    ELSE IF pc = "metadata" THEN 2
    ELSE 2 + 5 * (Len(models) - i)
           + (IF pc = "for" THEN 5 ELSE IF pc = "download" THEN 4
              ELSE IF pc = "convert" THEN 3 ELSE IF pc = "optimize" THEN 2
              ELSE 1)

\* C7: a failure of any stage for one token is caught at the loop and does
\* not abort the batch: tokens are processed one at a time in request order;
\* until the run is done a step can be taken and every step brings the end
\* nearer, so every run ends, and it ends with every requested token
\* Recorded or Failed and every catalog token attempted.
C7_BatchContinues ==
    /\ [](CaughtAtBoundary /\ InRequestOrder /\ EveryTokenProcessed)
    /\ [](pc = "done" \/ ENABLED Next)
    /\ [][StepsLeft' < StepsLeft]_vars

\* The same end, stated as liveness under FairSpec
C7_EventuallySettled == <>[](pc = "done" /\ AllSettled)

C7_Witness ==
    /\ pc = "done"
    /\ Len(models) = 3
    /\ FetchRaised(1)
    /\ ConvertRaised(2)
    /\ status[3] = "Recorded"

----------------------------------------------------------------------------
(* C8 *)

\* p and q are two invocations of download_model, p before q, with the same
\* URL and the same destination directory
TwoFetches(p, q) ==
    /\ p < q
    /\ calls[q].tool = "download_model"
    /\ calls[p].tool = "download_model"
    /\ calls[p].args[1] = calls[q].args[1]
    /\ calls[p].args[2] = calls[q].args[2]

\* The downloads and extractions run by the invocation logged at n
DownloadsOf(n) == {m \in CallsAt(calls[n].at) : calls[m].tool = "wget"}

ExtractionsOf(n) == {m \in CallsAt(calls[n].at) : calls[m].tool = "tar"}

----------------------------------------------------------------------------
(* C9 *)

\* C9: every conversion attempt made for a detection token passes the shape
\* [-1, 3, -1, -1], every one made for a recognition token [-1, 3, 48, -1],
\* and no conversion is attempted for a token of any other task type.
C9_ShapeByTaskType ==
    \A n \in 1..Len(calls) :
        calls[n].tool = "paddle2onnx" =>
            LET task == Head(models[calls[n].at])
                shape == calls[n].args.input_shape_dict
            IN  /\ task \in {"det", "rec"}
                /\ task = "det" => shape = <<-1, 3, -1, -1>>
                /\ task = "rec" => shape = <<-1, 3, 48, -1>>

C9_Witness ==
    /\ pc = "done"
    /\ models = << <<"det", "mobile">>, <<"cls", "mobile">>,
                   <<"rec", "server", "en">> >>
    /\ \E n, m \in 1..Len(calls) :
          /\ calls[n].tool = "paddle2onnx" /\ calls[n].at = 1
          /\ calls[m].tool = "paddle2onnx" /\ calls[m].at = 3

----------------------------------------------------------------------------
(* C10 *)

\* C10: convert_to_onnx rejects every task type other than detection and
\* recognition: such a call ends in an error and does not run paddle2onnx.
C10_ConverterRejectsUnknownType ==
    \A n \in 1..Len(calls) :
        calls[n].tool = "paddle2onnx" =>
            calls[n].args.model_type \in {<<"det">>, <<"rec">>}

\* What the code does instead: any task type other than "det" is converted
\* with the recognition shape.
C10_OtherTypesTakeRecShape ==
    \A n \in 1..Len(calls) :
        (calls[n].tool = "paddle2onnx" /\ calls[n].args.model_type # <<"det">>)
            => calls[n].args.input_shape_dict = <<-1, 3, 48, -1>>

----------------------------------------------------------------------------
(* C11 *)

\* The run of the end-to-end example: the request det_mobile, rec_mobile_en,
\* det_bogus with optimization enabled and the tooling present.
InitE2E ==
    /\ models = << <<"det", "mobile">>, <<"rec", "mobile", "en">>,
                   <<"det", "bogus">> >>
    /\ skip_download \in BOOLEAN
    /\ skip_optimization = FALSE
    /\ tooling = TRUE
    /\ pc = "for"
    /\ i = 1
    /\ loc = NoLoc
    /\ temp = EmptyFs
    /\ temp_exists = TRUE
    /\ out = EmptyFs
    /\ models_info = EmptyFs
    /\ metadata = <<>>
    /\ calls = <<>>
    /\ status = [k \in 1..3 |-> "Pending"]

SpecE2E == InitE2E /\ [][Next]_vars

NoStageRaised == \A k \in Positions : ~StageRaised(k)

\* C11: in the end-to-end example, when every external stage succeeds, the
\* written manifest holds exactly the entries PP-OCRv5_mobile_det and
\* PP-OCRv5_mobile_en_rec, each with its raw, optimized and quantized file
\* name, and none for det_bogus; the document also carries the shape notes
\* for detection and recognition.
C11_EndToEnd ==
    (Written /\ NoStageRaised) =>
        /\ DOMAIN Manifest = { <<"PP-OCRv5", "mobile", "det">>,
                               <<"PP-OCRv5", "mobile", "en", "rec">> }
        /\ Manifest[<<"PP-OCRv5", "mobile", "det">>] =
              [type |-> <<"det">>, variant |-> <<"mobile">>,
               original_onnx |-> <<"PP-OCRv5", "mobile", "det", ".onnx">>,
               optimized_onnx |->
                   <<"PP-OCRv5", "mobile", "det", "optimized", ".onnx">>,
               quantized_onnx |->
                   <<"PP-OCRv5", "mobile", "det", "optimized", "quantized",
                     ".onnx">>]
        /\ Manifest[<<"PP-OCRv5", "mobile", "en", "rec">>] =
              [type |-> <<"rec">>, variant |-> <<"mobile", "en">>,
               original_onnx |-> <<"PP-OCRv5", "mobile", "en", "rec", ".onnx">>,
               optimized_onnx |->
                   <<"PP-OCRv5", "mobile", "en", "rec", "optimized", ".onnx">>,
               quantized_onnx |->
                   <<"PP-OCRv5", "mobile", "en", "rec", "optimized",
                     "quantized", ".onnx">>]
        /\ metadata[Len(metadata)].optimization_notes.detection.input_shape
              = <<-1, 3, -1, -1>>
        /\ metadata[Len(metadata)].optimization_notes.recognition.input_shape
              = <<-1, 3, 48, -1>>
        /\ status = <<"Recorded", "Recorded", "Failed">>

C11_Witness ==
    /\ pc = "done"
    /\ NoStageRaised
    /\ Cardinality(DOMAIN Manifest) = 2
    /\ \A f \in UNION {EntryFiles(Manifest[n]) : n \in DOMAIN Manifest} :
          Exists(out, <<OutputDir, f>>)

----------------------------------------------------------------------------
(* C12 *)

\* The stages a model may pass to from a stage
NextStages(stage) ==
    CASE stage = "Pending"    -> {"Fetching", "Failed"}
      [] stage = "Fetching"   -> {"Converting", "Failed"}
      [] stage = "Converting" -> IF skip_optimization THEN {"Recorded", "Failed"}
                                 ELSE {"Optimizing", "Failed"}
      [] stage = "Optimizing" -> {"Recorded", "Failed"}
      [] OTHER                -> {}

\* Each call of a stage directly follows the successful return of the stage
\* before it, made for the same token
StagesCalledInOrder ==
    \A n \in 1..Len(calls) :
        /\ calls[n].tool = "paddle2onnx" =>
              /\ n > 1
              /\ calls[n - 1].tool = "download_model"
              /\ calls[n - 1].at = calls[n].at
              /\ calls[n - 1].rc = 0
        /\ calls[n].tool = "optimizer" =>
              /\ n > 1
              /\ calls[n - 1].tool = "paddle2onnx"
              /\ calls[n - 1].at = calls[n].at
              /\ calls[n - 1].rc = 0

\* The stage named tool returned successfully for the token at position k
Returned(k, tool) ==
    \E n \in 1..Len(calls) :
        calls[n].at = k /\ calls[n].tool = tool /\ ~Failing(calls[n])

RecordedAfterEveryStage ==
    \A k \in Positions :
        status[k] = "Recorded" =>
            /\ ~StageRaised(k)
            /\ Returned(k, "download_model")
            /\ Returned(k, "paddle2onnx")
            /\ ~skip_optimization => Returned(k, "optimizer")

\* A step moves at most the current token, to a next stage of its stage, and
\* the manifest gains or changes an entry only in the step that moves the
\* current token to Recorded
StageStep ==
    /\ \A k \in Positions :
          status'[k] # status[k] =>
              /\ k = i
              /\ status'[k] \in NextStages(status[k])
    /\ models_info' # models_info =>
          /\ status[i] \in {"Converting", "Optimizing"}
          /\ status'[i] = "Recorded"
          /\ DOMAIN models_info' = DOMAIN models_info \cup {NameOf(models[i])}

\* C12: each model passes the stages in the order Pending, Fetching,
\* Converting, Optimizing, Recorded: the converter is called only after the
\* fetcher returned successfully, the optimizer only after the converter
\* returned successfully, an entry is added to the manifest only after every
\* stage that was run returned successfully, and a model that reached Failed
\* never reaches Recorded afterwards.
C12_StagesInOrder ==
    /\ [](StagesCalledInOrder /\ RecordedAfterEveryStage)
    /\ [][StageStep]_vars

C12_Witness ==
    \E k \in Positions :
        /\ k + 1 \in Positions
        /\ status[k] = "Failed" /\ ConvertRaised(k)
        /\ status[k + 1] = "Recorded"
        /\ Returned(k + 1, "optimizer")
        /\ NameOf(models[k + 1]) \in DOMAIN models_info

----------------------------------------------------------------------------
(* C13 *)

\* C13: when skip-optimization is set, the optimizer is never called for any
\* model, and every manifest entry records the raw converted graph file only,
\* with no optimized and no quantized file name.
C13_SkipOptimization ==
    skip_optimization =>
        /\ \A n \in 1..Len(calls) : calls[n].tool # "optimizer"
        /\ \A name \in DOMAIN models_info :
              /\ DOMAIN models_info[name] = {"type", "variant", "onnx"}
              /\ models_info[name].onnx = name \o <<".onnx">>
        /\ Written =>
              \A name \in DOMAIN Manifest :
                  DOMAIN Manifest[name] = {"type", "variant", "onnx"}

C13_Witness ==
    /\ skip_optimization
    /\ pc = "done"
    /\ Cardinality(DOMAIN Manifest) = 2
    /\ \E n \in 1..Len(calls) : calls[n].tool = "paddle2onnx"

----------------------------------------------------------------------------
(* C14 *)

\* The token at position k is recorded at some position of the request
RecordedSomewhere(k) ==
    \E j \in Positions : models[j] = models[k] /\ status[j] = "Recorded"

\* The optimizer's fallback leaves the model on its way to Recorded
FallbackIsSoft ==
    \A k \in Positions :
        FellBack(k) =>
            \/ status[k] = "Recorded"
            \/ status[k] = "Optimizing" /\ pc = "record" /\ i = k

\* A failure of the optimizer ends the current model only
OptimizerFailureIsLocal ==
    \A k \in Positions :
        OptimizeRaised(k) =>
            /\ status[k] = "Failed"
            /\ i > k
            /\ pc \in {"metadata", "cleanup", "done"} => AllSettled

\* C14 as stated: when the tooling cannot be loaded the model still reaches
\* Recorded, and when loading, optimization or quantization fails for another
\* reason the model reaches Failed with no manifest entry while the remaining
\* tokens are still processed.
C14_OptimizerFailureNoEntry ==
    /\ FallbackIsSoft
    /\ OptimizerFailureIsLocal
    /\ \A k \in Positions :
          OptimizeRaised(k) => NameOf(models[k]) \notin DOMAIN models_info

\* C14 amended: when the tooling cannot be loaded the model still reaches
\* Recorded; when loading, optimization or quantization fails for another
\* reason the model reaches Failed, the remaining tokens are still processed,
\* and the manifest has no entry under the model's name unless the same token
\* is recorded at another position of the request.
C14_OptimizerFailureLocal ==
    /\ FallbackIsSoft
    /\ OptimizerFailureIsLocal
    /\ \A k \in Positions :
          (OptimizeRaised(k) /\ ~RecordedSomewhere(k)) =>
              NameOf(models[k]) \notin DOMAIN models_info

C14_Witness ==
    /\ pc = "done"
    /\ \E k, j \in Positions :
          /\ k < j
          /\ OptimizeRaised(k) /\ status[k] = "Failed"
          /\ NameOf(models[k]) \notin DOMAIN Manifest
          /\ status[j] = "Recorded"
          /\ NameOf(models[j]) \in DOMAIN Manifest

----------------------------------------------------------------------------
(* C15 *)

\* The scratch directory exists, with whatever the fetches left in it, until
\* the run is over, and is gone with all its content from then on
TempRemovedAtEnd ==
    /\ temp_exists <=> pc # "done"
    /\ pc = "done" =>
          /\ temp = EmptyFs
          /\ AllSettled
          /\ Len(metadata) = 1
          /\ calls[Len(calls)].tool = "rm"
          /\ calls[Len(calls)].args = <<TempDir>>
          /\ ~ENABLED Next
    /\ \A n \in 1..Len(calls) : calls[n].tool = "rm" => n = Len(calls) /\ pc = "done"
    /\ pc = "cleanup" => AllSettled /\ Len(metadata) = 1 /\ ENABLED Cleanup

\* C15: the scratch directory outputDir/temp is removed wholesale at the end
\* of every run, after all requested tokens have been processed and after the
\* metadata file has been written, also when some or all models failed; no
\* fetch, conversion or optimization runs after the removal.
C15_TempRemovedLast ==
    /\ []TempRemovedAtEnd
    /\ [][pc = "cleanup" => (pc' = "done" /\ ~temp_exists' /\ temp' = EmptyFs)]_vars
    /\ [][pc = "done" => calls' = calls]_vars

C15_Witness ==
    /\ pc = "done"
    /\ ~temp_exists
    /\ temp = EmptyFs
    /\ \A k \in Positions : status[k] = "Failed"
    /\ \E n \in 1..Len(calls) : calls[n].tool = "tar" /\ calls[n].rc = 0

----------------------------------------------------------------------------
(* C16 *)

\* The URL of the recognition catalog entry server_en, and the token
\* <taskType>_<variant> that names it
ServerEnUrl ==
    <<"paddleocr.bj.bcebos.com", "PP-OCRv4", "english",
      <<"en_PP-OCRv4_rec_server_infer", ".tar">> >>

RecServerEn == <<"rec", "server", "en">>

\* The fetcher was called with the server_en URL for the token at position k
FetchedServerEn(k) ==
    \E n \in 1..Len(calls) :
        /\ calls[n].at = k
        /\ calls[n].tool = "download_model"
        /\ calls[n].args[1] = ServerEnUrl

\* C16 as stated: no request token makes the orchestrator resolve to the
\* server_en recognition URL.
C16_ServerEnUnreachable ==
    /\ loc.url # ServerEnUrl
    /\ \A k \in Positions : ~FetchedServerEn(k)

\* C16 amended: the token rec_server_en, and no other token, makes the
\* orchestrator resolve to the server_en recognition URL: the token is split
\* at its first underscore only, so that its variant is server_en.
C16_ServerEnReachedByItsToken ==
    /\ loc.url = ServerEnUrl => models[i] = RecServerEn
    /\ \A k \in Positions :
          /\ FetchedServerEn(k) => models[k] = RecServerEn
          /\ (models[k] = RecServerEn /\ status[k] # "Pending") =>
                \/ FetchedServerEn(k)
                \/ status[k] = "Fetching" /\ i = k /\ loc.url = ServerEnUrl

C16_Witness ==
    \E k \in Positions :
        /\ models[k] = RecServerEn
        /\ FetchedServerEn(k)
        /\ status[k] = "Recorded"
        /\ models_info[<<"PP-OCRv5", "server", "en", "rec">>].variant
              = <<"server", "en">>

----------------------------------------------------------------------------
(* C17 *)

\* The distinct catalog tokens among the tokens processed so far
ProcessedCatalogTokens ==
    {models[k] : k \in {j \in Positions : Settled(j)}} \cap CatalogTokens

\* The entry a successful processing of token stores, as documented
EntryOf(token) ==
    IF skip_optimization
    THEN [type |-> <<Head(token)>>, variant |-> Tail(token),
          onnx |-> RawFile(token)[2]]
    ELSE [type |-> <<Head(token)>>, variant |-> Tail(token),
          original_onnx |-> RawFile(token)[2],
          optimized_onnx |-> OptimizedFile(token)[2],
          quantized_onnx |-> QuantizedFile(token)[2]]

OneEntryPerName ==
    /\ DOMAIN models_info \subseteq {NameOf(t) : t \in ProcessedCatalogTokens}
    /\ Cardinality(DOMAIN models_info) <= Cardinality(ProcessedCatalogTokens)
    /\ \A t \in ProcessedCatalogTokens :
          NameOf(t) \in DOMAIN models_info => models_info[NameOf(t)] = EntryOf(t)

\* A successful processing stores its entry under the model's name, in the
\* place of the entry that was there, and keeps every other entry
RecordReplaces ==
    pc = "record" =>
        models_info' =
            [n \in DOMAIN models_info \cup {NameOf(models[i])} |->
                IF n = NameOf(models[i]) THEN EntryOf(models[i])
                ELSE models_info[n]]

\* C17: the manifest holds at most one entry per model name; when the same
\* token is requested more than once, each later successful processing
\* replaces the earlier entry under that name, so that the number of manifest
\* entries is at most the number of distinct catalog tokens among the tokens
\* processed.
C17_OneEntryPerName ==
    /\ []OneEntryPerName
    /\ [][RecordReplaces]_vars

C17_Witness ==
    /\ pc = "done"
    /\ \E j, k \in Positions :
          /\ j < k
          /\ models[j] = models[k]
          /\ status[j] = "Recorded" /\ status[k] = "Recorded"
    /\ Cardinality(DOMAIN Manifest) = 1
    /\ Cardinality(ProcessedCatalogTokens) = 2

----------------------------------------------------------------------------
(* C18 *)

\* The artifact files of a token's model in the output directory
ArtifactsOf(token) == {RawFile(token), OptimizedFile(token), QuantizedFile(token)}

\* A step of the processing of the token at position i changes no manifest
\* entry under another model name, and no file of the output directory other
\* than the artifacts of its own model
OthersUntouched ==
    LET own == IF i \in Positions THEN models[i] ELSE <<"">>
    IN  /\ \A n \in DOMAIN models_info \ {NameOf(own)} :
              n \in DOMAIN models_info' /\ models_info'[n] = models_info[n]
        /\ DOMAIN models_info' \subseteq DOMAIN models_info \cup {NameOf(own)}
        /\ \A f \in DOMAIN out \ ArtifactsOf(own) :
              f \in DOMAIN out' /\ out'[f] = out[f]
        /\ DOMAIN out' \subseteq DOMAIN out \cup ArtifactsOf(own)

\* C18: processing one token, whether it ends in Recorded or in Failed, leaves
\* the manifest entries and the output-directory artifact files of every
\* model with a different model name unchanged.
C18_OtherModelsUnchanged == [][OthersUntouched]_vars

C18_Witness ==
    \E j, k \in Positions :
        /\ j < k
        /\ NameOf(models[j]) # NameOf(models[k])
        /\ status[j] = "Recorded"
        /\ status[k] = "Failed" /\ OptimizeRaised(k)
        /\ Exists(out, OptimizedFile(models[k]))
        /\ NameOf(models[j]) \in DOMAIN models_info
        /\ \A f \in ArtifactsOf(models[j]) : Exists(out, f)

----------------------------------------------------------------------------
(* C19 *)

\* The request lists of the two-run comparison: a token requested twice (the
\* second fetch finds the archive in place), two models, and a token that is
\* skipped before a model
TwinRequests ==
    { << <<"det", "mobile">>, <<"det", "mobile">> >>,
      << <<"det", "mobile">>, <<"rec", "server", "en">> >>,
      << <<"det", "bogus">>, <<"rec", "server", "en">> >> }

\* Two runs of main, one after the other, on the same request list and from
\* the same state of the file system (a fresh output directory), the second
\* with the other value of --skip-download.  calls and metadata keep what
\* both runs did.
InitTwice == Init /\ models \in TwinRequests

Rerun ==
    /\ pc = "done"
    /\ Len(metadata) = 1
    /\ skip_download' = ~skip_download
    /\ pc' = "for"
    /\ i' = 1
    /\ loc' = NoLoc
    /\ temp' = EmptyFs
    /\ temp_exists' = TRUE
    /\ out' = EmptyFs
    /\ models_info' = EmptyFs
    /\ status' = [k \in 1..Len(models) |-> "Pending"]
    /\ UNCHANGED <<models, skip_optimization, tooling, metadata, calls>>

NextTwice ==
    \/ Next
    \/ Rerun

SpecTwice == InitTwice /\ [][NextTwice]_vars

\* The calls of the first run end with its rm -rf; the calls after it are
\* the second run's
FirstRunLen ==
    IF \E n \in 1..Len(calls) : calls[n].tool = "rm"
    THEN CHOOSE n \in 1..Len(calls) :
            /\ calls[n].tool = "rm"
            /\ \A m \in 1..(n - 1) : calls[m].tool # "rm"
    ELSE Len(calls)

FirstRun == SubSeq(calls, 1, FirstRunLen)

SecondRun == SubSeq(calls, FirstRunLen + 1, Len(calls))

\* As long as the stages of the two runs had the same outcomes, the two runs
\* take the same steps, with the same arguments, for the same tokens; and
\* when they did to the end, the two runs write the same manifest
RunsAgree ==
    /\ \A n \in 1..Len(SecondRun) :
          (\A m \in 1..(n - 1) : SecondRun[m] = FirstRun[m]) =>
              /\ n <= Len(FirstRun)
              /\ SecondRun[n].tool = FirstRun[n].tool
              /\ SecondRun[n].at = FirstRun[n].at
              /\ SecondRun[n].args = FirstRun[n].args
    /\ (Len(metadata) = 2 /\ SecondRun = FirstRun) => metadata[2] = metadata[1]
    /\ (Len(metadata) = 2 /\ pc = "done" /\ SecondRun # FirstRun) =>
          \E n \in 1..Len(SecondRun) : SecondRun[n].rc # FirstRun[n].rc

\* A fetch downloads exactly when the archive is not at its destination
DownloadsIffArchiveAbsent ==
    pc = "download" =>
        LET filepath == <<TempDir, loc.url[Len(loc.url)]>>
            downloaded == /\ Len(calls') > Len(calls)
                          /\ calls'[Len(calls) + 1].tool = "wget"
                          /\ calls'[Len(calls) + 1].args = <<loc.url, filepath>>
        IN  downloaded <=> ~Exists(temp, filepath)

====
